---- MODULE Spec2Model ----
(***************************************************************************)
(* Model of the tc-dal DynamoDbService (src/services/DynamoDbService.js):  *)
(* the table-model mapping filled by the constructor's asynchronous tasks, *)
(* and the operations search, getById, validateDuplicate, create, update   *)
(* and delete, each split at the point where it awaits the backend.        *)
(*                                                                         *)
(* The backend (dynamoose over DynamoDB) is modelled as one store per      *)
(* table that serves each request atomically and may fail any request.     *)
(***************************************************************************)
EXTENDS Integers, Sequences, FiniteSets, TLC

\* ------------------------------------------------------------------ bounds

\* Total number of operation calls issued by all callers in one behaviour.
MaxOps == 4

\* Concurrent callers of the service (each awaits its call before the next).
Callers == {"c1", "c2"}

\* ------------------------------------------------- configuration (entities)

\* config.entities: the keys are the logical table names, in _.keys order.
EntityKeys == <<"countries", "educational_institutions">>

Tables == {EntityKeys[i] : i \in 1..Len(EntityKeys)}

\* Field with a schema default (isDeleted: { type: Boolean, default: false }).
DefaultFields == {"isDeleted"}

DefaultOf(f) == IF f = "isDeleted" THEN "false" ELSE "undefined"

Ids == {"1", "2"}

\* Order in which the backend lists the items of a table.
IdOrder == <<"1", "2">>

\* The empty object {}.
EmptyObj == [k \in {} |-> "undefined"]

\* ------------------------------------------------------------------ errors

NoError == [name |-> "null", message |-> <<>>]

\* Errors the backend call can hand to the callback (err).
BackendErrors ==
  { [name |-> "NetworkingError", message |-> <<"connect ECONNREFUSED">>] }

\* Reading a property of undefined: this.models[tableName] is not populated.
TypeError == [name |-> "TypeError", message |-> <<"Cannot read property of undefined">>]

\* `${tableName} with id: ${id} doesn't exist`
NotFoundError(tableName, id) ==
  [name |-> "NotFoundError",
   message |-> <<tableName, " with id: ", id, " doesn't exist">>]

\* ------------------------------------------------------------- JS values

\* undefined, and an array value.
Undefined == [type |-> "undefined"]

Arr(items) == [type |-> "array", items |-> items]

\* Settled promises.
Resolve(value) == [kind |-> "resolve", value |-> value]

Reject(error) == [kind |-> "reject", error |-> error]

NoOutcome == [kind |-> "none"]

NoResp == [err |-> NoError, type |-> "none"]

\* ------------------------------------------------------------------ state

VARIABLES
  models,      \* this.models: table name -> dynamoose model (partial map)
  populating,  \* the constructor's forEach tasks still suspended at their await
  db,          \* the backend's tables: table name -> (id -> stored item)
  call,        \* per caller: the operation call it last issued
  handle,      \* per caller: the record handle (dbItem) it holds
  nOps,        \* number of operation calls issued so far
  lastWrite    \* per table and id: the last write the backend applied
\* In a call, seen is what the backend held when it answered (the table for a
\* scan, the last write under the id for a query), and atIssue the last write
\* under the id when a getById was issued.

VARIABLES
  factory,     \* the service built by the factory function: its models, its
               \* suspended tasks, its backend tables, its call and its handle
  log          \* per caller: the outcomes of the calls it has made, in order

\* The variables of the factory-built service and of the callers' history.
aux == <<factory, log>>

vars == <<models, populating, db, call, handle, nOps, lastWrite, aux>>

\* The entity descriptors (config.entities[key]); the Country and
\* EducationalInstitution examples of docs/DynamoDB.md without countryFlag.
Entity(key) ==
  IF key = "countries"
    THEN [fields |-> {"id", "name", "countryCode", "isDeleted"}]
    ELSE [fields |-> {"id", "name", "isDeleted"}]

\* dynamoose.model(modelName, new Schema(entity.fields, entity.options))
getDynamooseModel(modelName, entity) ==
  [name |-> modelName, schema |-> entity.fields]

IdleCall ==
  [op |-> "none", status |-> "idle", table |-> "none", args |-> EmptyObj,
   read |-> "none", calls |-> 0, resp |-> NoResp, outcome |-> NoOutcome,
   seen |-> EmptyObj, atIssue |-> EmptyObj]

NoHandle == [table |-> "none", item |-> EmptyObj]

NoWrite == [kind |-> "none"]

\* The state when the constructor returns: this.models = {} and one task per
\* entity key suspended at `await getDynamooseModel(...)`.
Init ==
  /\ models = EmptyObj
  /\ populating = EntityKeys
  /\ db = [t \in Tables |-> EmptyObj]
  /\ call = [c \in Callers |-> IdleCall]
  /\ handle = [c \in Callers |-> NoHandle]
  /\ nOps = 0
  /\ lastWrite = [t \in Tables |-> [i \in Ids |-> NoWrite]]
  /\ factory = [models |-> EmptyObj, populating |-> EntityKeys,
                db |-> [t \in Tables |-> EmptyObj], call |-> IdleCall,
                handle |-> NoHandle, missing |-> FALSE]
  /\ log = [c \in Callers |-> <<>>]

\* obj[key] = value on a JS object held as a partial map.
SetProp(obj, key, value) ==
  [k \in DOMAIN obj \cup {key} |-> IF k = key THEN value ELSE obj[k]]

DelProp(obj, key) == [k \in DOMAIN obj \ {key} |-> obj[k]]

\* A task that writes the entry of every entity when it resumes.
Populate_writesAll ==
  /\ populating # <<>>
  /\ models' = [key \in Tables |-> getDynamooseModel(key, Entity(key))]
  /\ populating' = Tail(populating)
  /\ UNCHANGED <<db, call, handle, nOps, lastWrite>>

\* The continuation of one forEach task: this.models[key] = <the model>.
\* The tasks resume in the order they were suspended (the job queue is FIFO).
Populate ==
  /\ populating # <<>>
  /\ LET key == Head(populating) IN
       models' = SetProp(models, key, getDynamooseModel(key, Entity(key)))
  /\ populating' = Tail(populating)
  /\ UNCHANGED <<db, call, handle, nOps, lastWrite>>

\* A caller may issue a call when it is not awaiting one.  The population
\* tasks are queued back to back, so no other job runs between two of them:
\* calls are issued before the first task resumes or after the last one.
CanCall(c) ==
  /\ call[c].status # "pending"
  /\ nOps < MaxOps
  /\ populating = EntityKeys \/ populating = <<>>

\* ----------------------------------------------------------------- backend

\* The items of a table in listing order.
ItemsOf(t) ==
  LET present == SelectSeq(IdOrder, LAMBDA i : i \in DOMAIN db[t])
  IN [n \in 1..Len(present) |-> db[t][present[n]]]

\* One filter condition: options[key] = { eq: value }.
Matches(item, options) ==
  \A k \in DOMAIN options : k \in DOMAIN item /\ item[k] = options[k].eq

\* Model.scan(searchOptions).exec: the items that satisfy every condition,
\* with their count.
Scan(t, searchOptions) ==
  LET items == SelectSeq(ItemsOf(t), LAMBDA r : Matches(r, searchOptions))
  IN [items |-> items, count |-> Len(items)]

\* Model.query('id').eq(id).exec: the items whose hash key is id.
Query(t, id) == SelectSeq(ItemsOf(t), LAMBDA r : r.id = id)

\* ------------------------------------------------------------------ search

\* Inputs tried for (tableName, searchOptions).
SearchInputs ==
  { [table |-> "countries", options |-> EmptyObj],
    [table |-> "countries", options |-> [name |-> [eq |-> "Canada"]]],
    [table |-> "educational_institutions", options |-> EmptyObj] }

\* A search that resolves undefined for an empty result.
SearchCallback_undefinedWhenEmpty(err, result) ==
  IF err # NoError
    THEN Reject(err)
    ELSE Resolve(IF result.count = 0 THEN Undefined ELSE Arr(result.items))

\* The exec callback of search: reject(err), or resolve the result, an empty
\* array when result.count is 0.
SearchCallback(err, result) ==
  IF err # NoError
    THEN Reject(err)
    ELSE Resolve(IF result.count = 0 THEN Arr(<<>>) ELSE Arr(result.items))

\* A call that made its backend request and awaits the answer.  read is what
\* the call found at this.models[tableName] ("none": it did not look).
NewCall(op, table, args, read) ==
  [op |-> op, status |-> "pending", table |-> table, args |-> args,
   read |-> read, calls |-> 1, resp |-> NoResp, outcome |-> NoOutcome,
   seen |-> EmptyObj, atIssue |-> EmptyObj]

\* A call that threw before any backend request was made.
Thrown(op, table, args, read, error) ==
  [op |-> op, status |-> "settled", table |-> table, args |-> args,
   read |-> read, calls |-> 0, resp |-> NoResp, outcome |-> Reject(error),
   seen |-> EmptyObj, atIssue |-> EmptyObj]

\* A call that takes its model from this.models[tableName]: the request is
\* made on the model, and calling into undefined throws a TypeError.
OnModel(op, tableName, args) ==
  IF tableName \in DOMAIN models
    THEN NewCall(op, tableName, args, "model")
    ELSE Thrown(op, tableName, args, "undefined", TypeError)

\* search(tableName, searchOptions): this.models[tableName].scan(...).exec(cb)
Search(c, tableName, searchOptions) ==
  /\ CanCall(c)
  /\ call' = [call EXCEPT ![c] = OnModel("search", tableName, searchOptions)]
  /\ nOps' = nOps + 1
  /\ UNCHANGED <<models, populating, db, handle, lastWrite>>

Settle(c, resp, outcome, seen) ==
  [call EXCEPT ![c].status = "settled", ![c].resp = resp,
               ![c].outcome = outcome, ![c].seen = seen]

ScanResp(err, result) ==
  IF err # NoError THEN [err |-> err, type |-> "error"]
  ELSE [err |-> NoError, type |-> "scan", items |-> result.items,
        count |-> result.count]

\* The backend answers the scan of a pending search.
SearchRespond(c) ==
  /\ call[c].op = "search" /\ call[c].status = "pending"
  /\ \E err \in {NoError} \cup BackendErrors :
       LET result == Scan(call[c].table, call[c].args) IN
       call' = Settle(c, ScanResp(err, result), SearchCallback(err, result),
                      db[call[c].table])
  /\ UNCHANGED <<models, populating, db, handle, nOps, lastWrite>>

\* ----------------------------------------------------------------- getById

QueryResp(err, result) ==
  IF err # NoError THEN [err |-> err, type |-> "error"]
  ELSE [err |-> NoError, type |-> "query", items |-> result]

\* A getById that resolves result[0] without looking at result.length.
GetByIdCallback_noLengthCheck(tableName, id, err, result) ==
  IF err # NoError THEN Reject(err)
  ELSE IF Len(result) > 0 THEN Resolve(result[1])
  ELSE Resolve(Undefined)

\* The exec callback of getById: reject(err), resolve(result[0]) when the
\* result is not empty, else reject with NotFoundError.
GetByIdCallback(tableName, id, err, result) ==
  IF err # NoError THEN Reject(err)
  ELSE IF Len(result) > 0 THEN Resolve(result[1])
  ELSE Reject(NotFoundError(tableName, id))

\* getById(tableName, id): this.models[tableName].query('id').eq(id).exec(cb)
GetById(c, tableName, id) ==
  /\ CanCall(c)
  /\ call' = [call EXCEPT ![c] =
       [OnModel("getById", tableName, [id |-> id])
          EXCEPT !.atIssue = lastWrite[tableName][id]]]
  /\ nOps' = nOps + 1
  /\ UNCHANGED <<models, populating, db, handle, lastWrite>>

\* The caller keeps the record a call resolved with as its record handle.
Keep(c, tableName, outcome) ==
  IF outcome.kind = "resolve"
    THEN [handle EXCEPT ![c] = [table |-> tableName, item |-> outcome.value]]
    ELSE handle

\* The backend answers the query of a pending getById.
GetByIdRespond(c) ==
  /\ call[c].op = "getById" /\ call[c].status = "pending"
  /\ \E err \in {NoError} \cup BackendErrors :
       LET t == call[c].table
           id == call[c].args.id
           result == Query(t, id)
           outcome == GetByIdCallback(t, id, err, result)
       IN /\ call' = Settle(c, QueryResp(err, result), outcome, lastWrite[t][id])
          /\ handle' = Keep(c, t, outcome)
  /\ UNCHANGED <<models, populating, db, nOps, lastWrite>>

\* ------------------------------------------------------------------ create

\* Inputs tried for (tableName, id).
GetByIdInputs ==
  { [table |-> "countries", id |-> "1"],
    [table |-> "countries", id |-> "2"],
    [table |-> "educational_institutions", id |-> "1"] }

\* Inputs tried for (tableName, data).
CreateInputs ==
  { [table |-> "countries",
     data |-> [id |-> "1", name |-> "Canada", countryCode |-> "CAN"]],
    [table |-> "countries",
     data |-> [id |-> "2", name |-> "Peru", countryCode |-> "CAN",
               isDeleted |-> "true"]],
    [table |-> "educational_institutions",
     data |-> [id |-> "1", name |-> "Canada"]] }

\* The data given to create or update names attributes of the table's entity
\* descriptor, and create gives the required ones.
Conforms(tableName, data) == DOMAIN data \subseteq Entity(tableName).fields

Complete(tableName, data) ==
  Entity(tableName).fields \ DefaultFields \subseteq DOMAIN data

\* A save in which the schema's default replaces the attribute given.
ToDynamo_defaultWins(model, item) ==
  [f \in DOMAIN item \cup (DefaultFields \cap model.schema) |->
     IF f \in DefaultFields \cap model.schema THEN DefaultOf(f) ELSE item[f]]

\* The item dbItem.save() writes: the attributes of dbItem, and the schema's
\* default for an attribute it lacks.
ToDynamo(model, item) ==
  [f \in DOMAIN item \cup (DefaultFields \cap model.schema) |->
     IF f \in DOMAIN item THEN item[f] ELSE DefaultOf(f)]

WriteResp(err) ==
  IF err # NoError THEN [err |-> err, type |-> "error"]
  ELSE [err |-> NoError, type |-> "write"]

\* A callback that resolves whatever err is.
SaveCallback_ignoresErr(err, dbItem) == Resolve(dbItem)

\* The callback of save and delete: reject(err) or resolve(dbItem).
SaveCallback(err, dbItem) == IF err # NoError THEN Reject(err) ELSE Resolve(dbItem)

\* PutItem: the item replaces what the table holds under its id.
Put(t, item) == [db EXCEPT ![t] = SetProp(db[t], item.id, item)]

\* DeleteItem by key.
Remove(t, id) == [db EXCEPT ![t] = DelProp(db[t], id)]

\* create(tableName, data): new this.models[tableName](data), dbItem.save(cb)
Create(c, tableName, data) ==
  /\ CanCall(c)
  /\ Conforms(tableName, data) /\ Complete(tableName, data)
  /\ call' = [call EXCEPT ![c] =
       OnModel("create", tableName,
               [data |-> data,
                item |-> IF tableName \in DOMAIN models
                           THEN ToDynamo(models[tableName], data) ELSE data])]
  /\ nOps' = nOps + 1
  /\ UNCHANGED <<models, populating, db, handle, lastWrite>>

\* A save that is refused with ConflictError when the table holds another
\* record with the same name and countryCode.
CreateRespond_conditional(c) ==
  /\ call[c].op = "create" /\ call[c].status = "pending"
  /\ \E err \in {NoError} \cup BackendErrors :
       LET t == call[c].table
           item == call[c].args.item
           taken == \E i \in DOMAIN db[t] :
                      /\ i # item.id
                      /\ \A f \in {"name", "countryCode"} \cap DOMAIN item :
                           f \in DOMAIN db[t][i] /\ db[t][i][f] = item[f]
           outcome == IF err = NoError /\ taken
                        THEN Reject([name |-> "ConflictError", message |-> <<t>>])
                        ELSE SaveCallback(err, item)
           written == err = NoError /\ ~taken
       IN /\ call' = Settle(c, WriteResp(err), outcome, EmptyObj)
          /\ handle' = Keep(c, t, outcome)
          /\ db' = IF written THEN Put(t, item) ELSE db
          /\ lastWrite' =
               IF written
                 THEN [lastWrite EXCEPT ![t][item.id] =
                         [kind |-> "create", data |-> call[c].args.data]]
                 ELSE lastWrite
  /\ UNCHANGED <<models, populating, nOps>>

\* The backend answers the save of a pending create.
CreateRespond(c) ==
  /\ call[c].op = "create" /\ call[c].status = "pending"
  /\ \E err \in {NoError} \cup BackendErrors :
       LET t == call[c].table
           item == call[c].args.item
           outcome == SaveCallback(err, item)
       IN /\ call' = Settle(c, WriteResp(err), outcome, EmptyObj)
          /\ handle' = Keep(c, t, outcome)
          /\ db' = IF err = NoError THEN Put(t, item) ELSE db
          /\ lastWrite' =
               IF err = NoError
                 THEN [lastWrite EXCEPT ![t][item.id] =
                         [kind |-> "create", data |-> call[c].args.data]]
                 ELSE lastWrite
  /\ UNCHANGED <<models, populating, nOps>>

\* ------------------------------------------------------------------ update

\* Inputs tried for the data of update.
UpdateInputs == { [name |-> "Peru"], [countryCode |-> "PER"] }

\* An update that replaces dbItem's attributes by data and the key.
Overwrite_dropsOthers(dbItem, data) ==
  [f \in {"id"} \cup DOMAIN data |->
     IF f \in DOMAIN data THEN data[f] ELSE dbItem[f]]

\* Object.keys(data).forEach((key) => { dbItem[key] = data[key] })
Overwrite(dbItem, data) ==
  [f \in DOMAIN dbItem \cup DOMAIN data |->
     IF f \in DOMAIN data THEN data[f] ELSE dbItem[f]]

\* update(dbItem, data): overwrite the fields of dbItem, then dbItem.save(cb)
Update(c, data) ==
  /\ CanCall(c)
  /\ handle[c] # NoHandle
  /\ Conforms(handle[c].table, data)
  /\ LET dbItem == Overwrite(handle[c].item, data) IN
       /\ handle' = [handle EXCEPT ![c].item = dbItem]
       /\ call' = [call EXCEPT ![c] =
            NewCall("update", handle[c].table,
                    [data |-> data, before |-> handle[c].item, item |-> dbItem],
                    "none")]
  /\ nOps' = nOps + 1
  /\ UNCHANGED <<models, populating, db, lastWrite>>

\* The write before this one under the id was a delete, or an update that
\* itself came after a delete with no create between.
AfterDelete(t, id) ==
  \/ lastWrite[t][id].kind = "delete"
  \/ lastWrite[t][id].kind = "update" /\ lastWrite[t][id].afterDelete

\* An update that puts the handle back as it was when the save fails.
UpdateRespond_restores(c) ==
  /\ call[c].op = "update" /\ call[c].status = "pending"
  /\ \E err \in {NoError} \cup BackendErrors :
       LET t == call[c].table
           item == call[c].args.item
       IN /\ call' = Settle(c, WriteResp(err), SaveCallback(err, item), EmptyObj)
          /\ db' = IF err = NoError THEN Put(t, item) ELSE db
          /\ handle' = IF err = NoError THEN handle
                       ELSE [handle EXCEPT ![c].item = call[c].args.before]
          /\ lastWrite' =
               IF err = NoError
                 THEN [lastWrite EXCEPT ![t][item.id] =
                         [kind |-> "update", data |-> call[c].args.data,
                          before |-> call[c].args.before,
                          afterDelete |-> AfterDelete(t, item.id)]]
                 ELSE lastWrite
  /\ UNCHANGED <<models, populating, nOps>>

\* The backend answers the save of a pending update.
UpdateRespond(c) ==
  /\ call[c].op = "update" /\ call[c].status = "pending"
  /\ \E err \in {NoError} \cup BackendErrors :
       LET t == call[c].table
           item == call[c].args.item
       IN /\ call' = Settle(c, WriteResp(err), SaveCallback(err, item), EmptyObj)
          /\ db' = IF err = NoError THEN Put(t, item) ELSE db
          /\ lastWrite' =
               IF err = NoError
                 THEN [lastWrite EXCEPT ![t][item.id] =
                         [kind |-> "update", data |-> call[c].args.data,
                          before |-> call[c].args.before,
                          afterDelete |-> AfterDelete(t, item.id)]]
                 ELSE lastWrite
  /\ UNCHANGED <<models, populating, handle, nOps>>

\* ------------------------------------------------------------------ delete

\* delete(dbItem) / remove(dbItem): dbItem.delete(cb)
Delete(c) ==
  /\ CanCall(c)
  /\ handle[c] # NoHandle
  /\ call' = [call EXCEPT ![c] =
       NewCall("delete", handle[c].table, [item |-> handle[c].item], "none")]
  /\ nOps' = nOps + 1
  /\ UNCHANGED <<models, populating, db, handle, lastWrite>>

\* A delete that calls dbItem.save where it should call dbItem.delete.
DeleteRespond_saves(c) ==
  /\ call[c].op = "delete" /\ call[c].status = "pending"
  /\ \E err \in {NoError} \cup BackendErrors :
       LET t == call[c].table
           item == call[c].args.item
       IN /\ call' = Settle(c, WriteResp(err), SaveCallback(err, item), EmptyObj)
          /\ db' = IF err = NoError THEN Put(t, item) ELSE db
          /\ lastWrite' =
               IF err = NoError
                 THEN [lastWrite EXCEPT ![t][item.id] = [kind |-> "delete"]]
                 ELSE lastWrite
  /\ UNCHANGED <<models, populating, handle, nOps>>

\* The backend answers the delete of a pending delete.
DeleteRespond(c) ==
  /\ call[c].op = "delete" /\ call[c].status = "pending"
  /\ \E err \in {NoError} \cup BackendErrors :
       LET t == call[c].table
           item == call[c].args.item
       IN /\ call' = Settle(c, WriteResp(err), SaveCallback(err, item), EmptyObj)
          /\ db' = IF err = NoError THEN Remove(t, item.id) ELSE db
          /\ lastWrite' =
               IF err = NoError
                 THEN [lastWrite EXCEPT ![t][item.id] = [kind |-> "delete"]]
                 ELSE lastWrite
  /\ UNCHANGED <<models, populating, handle, nOps>>

\* ------------------------------------------------------- validateDuplicate

\* An array argument and a single (non-array) argument.
Array(elems) == [isArray |-> TRUE, elems |-> elems]

Single(val) == [isArray |-> FALSE, val |-> val]

\* Inputs tried for (tableName, keys, values).
ValidateInputs ==
  { [table |-> "educational_institutions",
     keys |-> Single("name"), values |-> Single("Canada")],
    [table |-> "countries",
     keys |-> Array(<<"name", "countryCode">>), values |-> Array(<<"Peru", "CAN">>)],
    [table |-> "countries",
     keys |-> Array(<<"name", "countryCode">>), values |-> Array(<<"Canada">>)],
    [table |-> "countries",
     keys |-> Array(<<"name", "name">>), values |-> Array(<<"Peru", "Canada">>)] }

\* `${array}`: the elements joined by commas.
RECURSIVE Join(_)
Join(elems) ==
  IF elems = <<>> THEN <<>>
  ELSE IF Len(elems) = 1 THEN elems
  ELSE <<Head(elems), ",">> \o Join(Tail(elems))

\* `size of ${keys} and ${values} do not match.`
BadRequestError(keys, values) ==
  [name |-> "BadRequestError",
   message |-> <<"size of ">> \o Join(keys.elems) \o <<" and ">>
               \o Join(values.elems) \o <<" do not match.">>]

\* keys.forEach((key, index) => { options[key] = { eq: values[index] } }),
\* the first n keys done.
RECURSIVE ForEachKey(_, _, _)
ForEachKey(keys, values, n) ==
  IF n = 0 THEN EmptyObj
  ELSE SetProp(ForEachKey(keys, values, n - 1), keys[n], [eq |-> values[n]])

\* The filter validateDuplicate hands to search.
BuildOptions(keys, values) ==
  IF keys.isArray
    THEN ForEachKey(keys.elems, values.elems, Len(keys.elems))
    ELSE SetProp(EmptyObj, keys.val, [eq |-> values.val])

\* for (const i in keys) { str += `${key}: ${value}`; if (i < keys.length - 1)
\* str += ', ' }, from index i (1-based) on.
RECURSIVE PairsStr(_, _, _)
PairsStr(keys, values, i) ==
  IF i > Len(keys) THEN <<>>
  ELSE <<keys[i], ": ", values[i]>>
       \o (IF i < Len(keys) THEN <<", ">> ELSE <<>>)
       \o PairsStr(keys, values, i + 1)

\* The ConflictError of validateDuplicate, for array keys and for a single key.
ConflictError(tableName, keys, values) ==
  [name |-> "ConflictError",
   message |->
     IF keys.isArray
       THEN <<tableName, " with [ ">> \o PairsStr(keys.elems, values.elems, 1)
            \o <<" ] already exists">>
       ELSE <<tableName, " with ", keys.val, ": ", values.val, " already exists">>]

\* A validateDuplicate that compares the lengths only after its search.
ValidateDuplicate_checkAfterSearch(c, tableName, keys, values) ==
  /\ CanCall(c)
  /\ call' = [call EXCEPT ![c] =
       OnModel("validateDuplicate", tableName,
               [keys |-> keys, values |-> values, options |-> EmptyObj])]
  /\ nOps' = nOps + 1
  /\ UNCHANGED <<models, populating, db, handle, lastWrite>>

\* validateDuplicate up to its await: the arity check, the filter, and the
\* call of search.
ValidateDuplicate(c, tableName, keys, values) ==
  /\ CanCall(c)
  /\ call' = [call EXCEPT ![c] =
       IF keys.isArray /\ Len(keys.elems) # Len(values.elems)
         THEN Thrown("validateDuplicate", tableName,
                     [keys |-> keys, values |-> values], "none",
                     BadRequestError(keys, values))
         ELSE OnModel("validateDuplicate", tableName,
                      [keys |-> keys, values |-> values,
                       options |-> BuildOptions(keys, values)])]
  /\ nOps' = nOps + 1
  /\ UNCHANGED <<models, populating, db, handle, lastWrite>>

\* validateDuplicate after `await this.search(...)`: the rejection of search
\* is thrown on; records.length > 0 throws ConflictError; else it returns.
AfterSearch(tableName, keys, values, searched) ==
  IF searched.kind = "reject" THEN searched
  ELSE IF searched.value.type # "array" THEN Reject(TypeError)
  ELSE IF Len(searched.value.items) > 0
    THEN Reject(ConflictError(tableName, keys, values))
  ELSE Resolve(Undefined)

\* The backend answers the scan of a pending validateDuplicate.
ValidateDuplicateRespond(c) ==
  /\ call[c].op = "validateDuplicate" /\ call[c].status = "pending"
  /\ \E err \in {NoError} \cup BackendErrors :
       LET t == call[c].table
           result == Scan(t, call[c].args.options)
       IN call' = Settle(c, ScanResp(err, result),
                         AfterSearch(t, call[c].args.keys, call[c].args.values,
                                     SearchCallback(err, result)),
                         db[t])
  /\ UNCHANGED <<models, populating, db, handle, nOps, lastWrite>>

\* One service (the class) used by the callers; the factory-built service and
\* the history are not in play.
Next ==
  \/ Populate /\ UNCHANGED aux
  \/ \E c \in Callers, i \in SearchInputs : Search(c, i.table, i.options) /\ UNCHANGED aux
  \/ \E c \in Callers : SearchRespond(c) /\ UNCHANGED aux
  \/ \E c \in Callers, i \in GetByIdInputs : GetById(c, i.table, i.id) /\ UNCHANGED aux
  \/ \E c \in Callers : GetByIdRespond(c) /\ UNCHANGED aux
  \/ \E c \in Callers, i \in CreateInputs : Create(c, i.table, i.data) /\ UNCHANGED aux
  \/ \E c \in Callers : CreateRespond(c) /\ UNCHANGED aux
  \/ \E c \in Callers, d \in UpdateInputs : Update(c, d) /\ UNCHANGED aux
  \/ \E c \in Callers : UpdateRespond(c) /\ UNCHANGED aux
  \/ \E c \in Callers : Delete(c) /\ UNCHANGED aux
  \/ \E c \in Callers : DeleteRespond(c) /\ UNCHANGED aux
  \/ \E c \in Callers, i \in ValidateInputs :
       ValidateDuplicate(c, i.table, i.keys, i.values) /\ UNCHANGED aux
  \/ \E c \in Callers : ValidateDuplicateRespond(c) /\ UNCHANGED aux

Spec == Init /\ [][Next]_vars

\* ------------------------------ the service built by the factory function

\* The backend operations on the tables the factory-built service is
\* connected to.
ItemsIn(tbl) ==
  LET present == SelectSeq(IdOrder, LAMBDA i : i \in DOMAIN tbl)
  IN [n \in 1..Len(present) |-> tbl[present[n]]]

ScanIn(tbl, searchOptions) ==
  LET items == SelectSeq(ItemsIn(tbl), LAMBDA r : Matches(r, searchOptions))
  IN [items |-> items, count |-> Len(items)]

QueryIn(tbl, id) == SelectSeq(ItemsIn(tbl), LAMBDA r : r.id = id)

\* The continuation of one forEach task of the factory function:
\* models[key] = <the model>.
Factory_populate ==
  /\ factory.populating # <<>>
  /\ LET key == Head(factory.populating) IN
       factory' = [factory EXCEPT
         !.models = SetProp(@, key, getDynamooseModel(key, Entity(key))),
         !.populating = Tail(@)]

\* The object the factory function returns has the properties it assigned:
\* search, getById, validateDuplicate, create, update and remove.
Factory_properties ==
  {"search", "getById", "validateDuplicate", "create", "update", "remove"}

\* dynamoDbService.<name>(...) for a name the object lacks: the call
\* expression throws before any function runs.
NotAFunction(name) ==
  [name |-> "TypeError", message |-> <<"dynamoDbService.", name, " is not a function">>]

Factory_canCall ==
  /\ factory.call.status # "pending"
  /\ factory.populating = EntityKeys \/ factory.populating = <<>>

\* A call that takes its model from models[tableName].
Factory_onModel(op, tableName, args) ==
  IF tableName \in DOMAIN factory.models
    THEN NewCall(op, tableName, args, "model")
    ELSE Thrown(op, tableName, args, "undefined", TypeError)

Factory_issue(newCall) == factory' = [factory EXCEPT !.call = newCall]

Factory_settle(resp, outcome) ==
  [factory.call EXCEPT !.status = "settled", !.resp = resp, !.outcome = outcome]

\* The caller keeps the record a call resolved with as its record handle.
Factory_keep(tableName, outcome) ==
  IF outcome.kind = "resolve"
    THEN [table |-> tableName, item |-> outcome.value]
    ELSE factory.handle

\* dynamoDbService.search: models[tableName].scan(searchOptions).exec(cb)
Factory_search(tableName, searchOptions) ==
  /\ Factory_canCall
  /\ Factory_issue(Factory_onModel("search", tableName, searchOptions))

\* The exec callback of dynamoDbService.search.
Factory_searchCallback(err, result) ==
  IF err # NoError
    THEN Reject(err)
    ELSE Resolve(IF result.count = 0 THEN Arr(<<>>) ELSE Arr(result.items))

\* The backend answers the scan of a pending search with err.
Factory_searchRespond(err) ==
  /\ factory.call.op = "search" /\ factory.call.status = "pending"
  /\ LET result == ScanIn(factory.db[factory.call.table], factory.call.args) IN
       factory' = [factory EXCEPT !.call =
         Factory_settle(ScanResp(err, result), Factory_searchCallback(err, result))]

\* dynamoDbService.getById: models[tableName].query('id').eq(id).exec(cb)
Factory_getById(tableName, id) ==
  /\ Factory_canCall
  /\ Factory_issue(Factory_onModel("getById", tableName, [id |-> id]))

\* The exec callback of dynamoDbService.getById.
Factory_getByIdCallback(tableName, id, err, result) ==
  IF err # NoError THEN Reject(err)
  ELSE IF Len(result) > 0 THEN Resolve(result[1])
  ELSE Reject(NotFoundError(tableName, id))

\* The backend answers the query of a pending getById with err.
Factory_getByIdRespond(err) ==
  /\ factory.call.op = "getById" /\ factory.call.status = "pending"
  /\ LET t == factory.call.table
         id == factory.call.args.id
         result == QueryIn(factory.db[t], id)
         outcome == Factory_getByIdCallback(t, id, err, result)
     IN factory' = [factory EXCEPT
          !.call = Factory_settle(QueryResp(err, result), outcome),
          !.handle = Factory_keep(t, outcome)]

\* dynamoDbService.validateDuplicate up to its await.
Factory_validateDuplicate(tableName, keys, values) ==
  /\ Factory_canCall
  /\ Factory_issue(
       IF keys.isArray /\ Len(keys.elems) # Len(values.elems)
         THEN Thrown("validateDuplicate", tableName,
                     [keys |-> keys, values |-> values], "none",
                     BadRequestError(keys, values))
         ELSE Factory_onModel("validateDuplicate", tableName,
                              [keys |-> keys, values |-> values,
                               options |-> BuildOptions(keys, values)]))

\* dynamoDbService.validateDuplicate after `await dynamoDbService.search(...)`.
Factory_afterSearch(tableName, keys, values, searched) ==
  IF searched.kind = "reject" THEN searched
  ELSE IF searched.value.type # "array" THEN Reject(TypeError)
  ELSE IF Len(searched.value.items) > 0
    THEN Reject(ConflictError(tableName, keys, values))
  ELSE Resolve(Undefined)

\* The backend answers the scan of a pending validateDuplicate with err.
Factory_validateDuplicateRespond(err) ==
  /\ factory.call.op = "validateDuplicate" /\ factory.call.status = "pending"
  /\ LET t == factory.call.table
         result == ScanIn(factory.db[t], factory.call.args.options)
     IN factory' = [factory EXCEPT !.call =
          Factory_settle(ScanResp(err, result),
            Factory_afterSearch(t, factory.call.args.keys, factory.call.args.values,
                                Factory_searchCallback(err, result)))]

\* dynamoDbService.create: new models[tableName](data), dbItem.save(cb)
Factory_create(tableName, data) ==
  /\ Factory_canCall
  /\ Conforms(tableName, data) /\ Complete(tableName, data)
  /\ Factory_issue(
       Factory_onModel("create", tableName,
         [data |-> data,
          item |-> IF tableName \in DOMAIN factory.models
                     THEN ToDynamo(factory.models[tableName], data) ELSE data]))

\* The callback of save and delete in the factory-built service.
Factory_saveCallback(err, dbItem) ==
  IF err # NoError THEN Reject(err) ELSE Resolve(dbItem)

\* The backend answers the save of a pending create with err.
Factory_createRespond(err) ==
  /\ factory.call.op = "create" /\ factory.call.status = "pending"
  /\ LET t == factory.call.table
         item == factory.call.args.item
         outcome == Factory_saveCallback(err, item)
     IN factory' = [factory EXCEPT
          !.call = Factory_settle(WriteResp(err), outcome),
          !.handle = Factory_keep(t, outcome),
          !.db[t] = IF err = NoError THEN SetProp(@, item.id, item) ELSE @]

\* dynamoDbService.update: overwrite the fields of dbItem, then dbItem.save(cb)
Factory_update(data) ==
  /\ Factory_canCall
  /\ factory.handle # NoHandle
  /\ Conforms(factory.handle.table, data)
  /\ LET before == factory.handle.item
         dbItem == [f \in DOMAIN before \cup DOMAIN data |->
                      IF f \in DOMAIN data THEN data[f] ELSE before[f]]
     IN factory' = [factory EXCEPT
          !.handle.item = dbItem,
          !.call = NewCall("update", factory.handle.table,
                           [data |-> data, before |-> before, item |-> dbItem],
                           "none")]

\* The backend answers the save of a pending update with err.
Factory_updateRespond(err) ==
  /\ factory.call.op = "update" /\ factory.call.status = "pending"
  /\ LET t == factory.call.table
         item == factory.call.args.item
     IN factory' = [factory EXCEPT
          !.call = Factory_settle(WriteResp(err), Factory_saveCallback(err, item)),
          !.db[t] = IF err = NoError THEN SetProp(@, item.id, item) ELSE @]

\* dynamoDbService.remove: dbItem.delete(cb)
Factory_remove ==
  /\ Factory_canCall
  /\ factory.handle # NoHandle
  /\ Factory_issue(NewCall("remove", factory.handle.table,
                           [item |-> factory.handle.item], "none"))

\* The backend answers the delete of a pending remove with err.
Factory_removeRespond(err) ==
  /\ factory.call.op = "remove" /\ factory.call.status = "pending"
  /\ LET t == factory.call.table
         item == factory.call.args.item
     IN factory' = [factory EXCEPT
          !.call = Factory_settle(WriteResp(err), Factory_saveCallback(err, item)),
          !.db[t] = IF err = NoError THEN DelProp(@, item.id) ELSE @]

\* dynamoDbService.delete(dbItem) on the object the factory function returns:
\* the object has no property delete, so the call throws a TypeError that the
\* awaiting caller receives, and dbItem.delete is never called.
Factory_delete ==
  /\ Factory_canCall
  /\ factory.handle # NoHandle
  /\ "delete" \notin Factory_properties
  /\ factory' = [factory EXCEPT
       !.call = Thrown("delete", factory.handle.table,
                       [item |-> factory.handle.item], "none",
                       NotAFunction("delete")),
       !.missing = TRUE]

\* ------------------------------------- the two services run side by side

\* The one caller that drives both services.
Driver == "c1"

\* The error of the backend's answer to the class's call in this step.
Answer == call'[Driver].resp.err

\* Both services are built on the same configuration over backends in the
\* same state; the driver makes each call on both, and the two backends give
\* the same answer.  The driver asks for deletion either as delete on both
\* services, or as delete on the class and remove on the factory-built one.
NextDual ==
  \/ Populate /\ Factory_populate /\ UNCHANGED log
  \/ \E i \in SearchInputs :
       Search(Driver, i.table, i.options) /\ Factory_search(i.table, i.options)
         /\ UNCHANGED log
  \/ SearchRespond(Driver) /\ Factory_searchRespond(Answer) /\ UNCHANGED log
  \/ \E i \in GetByIdInputs :
       GetById(Driver, i.table, i.id) /\ Factory_getById(i.table, i.id)
         /\ UNCHANGED log
  \/ GetByIdRespond(Driver) /\ Factory_getByIdRespond(Answer) /\ UNCHANGED log
  \/ \E i \in ValidateInputs :
       ValidateDuplicate(Driver, i.table, i.keys, i.values)
         /\ Factory_validateDuplicate(i.table, i.keys, i.values) /\ UNCHANGED log
  \/ ValidateDuplicateRespond(Driver) /\ Factory_validateDuplicateRespond(Answer)
       /\ UNCHANGED log
  \/ \E i \in CreateInputs :
       Create(Driver, i.table, i.data) /\ Factory_create(i.table, i.data)
         /\ UNCHANGED log
  \/ CreateRespond(Driver) /\ Factory_createRespond(Answer) /\ UNCHANGED log
  \/ \E d \in UpdateInputs :
       Update(Driver, d) /\ Factory_update(d) /\ UNCHANGED log
  \/ UpdateRespond(Driver) /\ Factory_updateRespond(Answer) /\ UNCHANGED log
  \/ Delete(Driver) /\ Factory_delete /\ UNCHANGED log
  \/ Delete(Driver) /\ Factory_remove /\ UNCHANGED log
  \/ DeleteRespond(Driver) /\ Factory_removeRespond(Answer) /\ UNCHANGED log
  \/ DeleteRespond(Driver) /\ factory.call.status # "pending" /\ UNCHANGED aux

SpecDual == Init /\ [][NextDual]_vars

\* --------------------------- two callers, each validating and then creating

\* The table and the keys the callers check, and the values a caller may
\* check for and then create a record with.
RaceTable == "countries"

RaceKeys == Array(<<"name", "countryCode">>)

RaceValues == { Array(<<"Canada", "CAN">>), Array(<<"Peru", "PER">>) }

\* The record caller c creates with values: the values under an id of c's own.
RaceData(c, values) ==
  [id |-> IF c = "c1" THEN "1" ELSE "2",
   name |-> values.elems[1], countryCode |-> values.elems[2]]

\* What a caller's history keeps of a settled call.
Entry(rec) ==
  [op |-> rec.op, args |-> rec.args, kind |-> rec.outcome.kind,
   error |-> IF rec.outcome.kind = "reject" THEN rec.outcome.error.name ELSE "none"]

\* The call of c that settles in this step is added to c's history.
Record ==
  /\ log' = [c \in Callers |->
       IF call'[c] # call[c] /\ call'[c].status = "settled"
         THEN Append(log[c], Entry(call'[c])) ELSE log[c]]
  /\ UNCHANGED factory

\* Each caller runs
\*   await validateDuplicate(table, keys, values); await create(table, data)
\* so it creates only when its validateDuplicate has resolved, and with the
\* values it validated.
NextRace ==
  \/ Populate /\ Record
  \/ \E c \in Callers, values \in RaceValues :
       /\ log[c] = <<>>
       /\ ValidateDuplicate(c, RaceTable, RaceKeys, values)
       /\ Record
  \/ \E c \in Callers : ValidateDuplicateRespond(c) /\ Record
  \/ \E c \in Callers :
       /\ Len(log[c]) = 1 /\ log[c][1].kind = "resolve"
       /\ Create(c, RaceTable, RaceData(c, log[c][1].args.values))
       /\ Record
  \/ \E c \in Callers : CreateRespond(c) /\ Record

SpecRace == Init /\ [][NextRace]_vars


\* ------------------------------------------------------------------ claims

Range(seq) == {seq[i] : i \in DOMAIN seq}

\* Caller c's call of op has settled.
Settled(c, op) == call[c].op = op /\ call[c].status = "settled"

\* Caller c's call of op has settled on an answer of the backend that was not
\* an error.
Answered(c, op) == Settled(c, op) /\ call[c].resp.type \in {"scan", "query", "write"}

\* C1: a getById whose query returned zero records is rejected with
\* NotFoundError, the message naming the table and the id; one whose query
\* returned records is resolved with a returned record of that id.
C1_GetByIdNotFound ==
  \A c \in Callers :
    Answered(c, "getById") =>
      LET t == call[c].table
          id == call[c].args.id
          out == call[c].outcome
      IN IF Len(call[c].resp.items) = 0
           THEN /\ out.kind = "reject"
                /\ out.error.name = "NotFoundError"
                /\ t \in Range(out.error.message)
                /\ id \in Range(out.error.message)
                /\ out.error.message = <<t, " with id: ", id, " doesn't exist">>
           ELSE /\ out.kind = "resolve"
                /\ out.value \in Range(call[c].resp.items)
                /\ out.value.id = id

\* One getById was rejected with NotFoundError and another resolved.
C1_Witness ==
  /\ \E c \in Callers :
       /\ Answered(c, "getById") /\ call[c].resp.items = <<>>
       /\ call[c].outcome.kind = "reject"
  /\ \E c \in Callers :
       /\ Answered(c, "getById") /\ call[c].resp.items # <<>>
       /\ call[c].outcome.kind = "resolve"

\* The call caller c issues in this step, if any.
Issues(c, op) ==
  /\ call'[c] # call[c]
  /\ call'[c].op = op
  /\ call[c].status # "pending"

Mismatched(args) ==
  args.keys.isArray /\ Len(args.keys.elems) # Len(args.values.elems)

\* C3: a validateDuplicate given key and value arrays of different lengths is
\* rejected with BadRequestError in the step that issues it, having made no
\* backend request, and the stored records are as before.
C3_BadRequestBeforeDb ==
  [][\A c \in Callers :
       (Issues(c, "validateDuplicate") /\ Mismatched(call'[c].args)) =>
         /\ call'[c].status = "settled"
         /\ call'[c].outcome.kind = "reject"
         /\ call'[c].outcome.error.name = "BadRequestError"
         /\ call'[c].calls = 0
         /\ call'[c].resp = NoResp
         /\ db' = db]_vars

\* A mismatched validateDuplicate was rejected once the models were there.
C3_Witness ==
  \E c \in Callers :
    /\ Settled(c, "validateDuplicate") /\ Mismatched(call[c].args)
    /\ call[c].table \in DOMAIN models
    /\ call[c].outcome.kind = "reject"
    /\ call[c].outcome.error.name = "BadRequestError"

\* C4: a search whose scan answered is resolved with an array of exactly the
\* scanned records, which are the records of the table that satisfy the
\* filter; when there is none the value is the empty array and not undefined.
C4_SearchEmptySequence ==
  \A c \in Callers :
    Answered(c, "search") =>
      LET out == call[c].outcome
          matching == {r \in Range(call[c].seen) : Matches(r, call[c].args)}
      IN /\ out.kind = "resolve"
         /\ out.value # Undefined
         /\ out.value.type = "array"
         /\ out.value.items = call[c].resp.items
         /\ Range(out.value.items) = matching
         /\ Len(out.value.items) = Cardinality(matching)
         /\ matching = {} => out.value = Arr(<<>>)

\* One search resolved with the empty array while the table held a record,
\* and another resolved with records.
C4_Witness ==
  /\ \E c \in Callers :
       /\ Answered(c, "search") /\ call[c].outcome = Resolve(Arr(<<>>))
       /\ call[c].seen # EmptyObj
  /\ \E c \in Callers :
       /\ Answered(c, "search") /\ call[c].outcome.kind = "resolve"
       /\ call[c].outcome.value.items # <<>>

\* The keys and the values of a validateDuplicate call as sequences of pairs.
KeysOf(args) == IF args.keys.isArray THEN args.keys.elems ELSE <<args.keys.val>>

ValuesOf(args) == IF args.values.isArray THEN args.values.elems ELSE <<args.values.val>>

\* Some record of the table has every key_i equal to value_i.
HoldsMatch(table, args) ==
  \E r \in Range(table) :
    \A i \in 1..Len(KeysOf(args)) :
      KeysOf(args)[i] \in DOMAIN r /\ r[KeysOf(args)[i]] = ValuesOf(args)[i]

\* The message names every key/value pair as `key: value`.
Enumerates(message, args) ==
  \A i \in 1..Len(KeysOf(args)) :
    \E j \in 1..(Len(message) - 2) :
      /\ message[j] = KeysOf(args)[i]
      /\ message[j + 1] = ": "
      /\ message[j + 2] = ValuesOf(args)[i]

IsConflict(out) == out.kind = "reject" /\ out.error.name = "ConflictError"

\* C2: a validateDuplicate whose scan answered is rejected with ConflictError
\* exactly when the table held a record with every key_i equal to value_i,
\* the message enumerating every pair; with no such record it resolves.
C2_ConflictIffMatch ==
  \A c \in Callers :
    Answered(c, "validateDuplicate") =>
      LET out == call[c].outcome IN
      /\ IsConflict(out) <=> HoldsMatch(call[c].seen, call[c].args)
      /\ IsConflict(out) => Enumerates(out.error.message, call[c].args)
      /\ ~IsConflict(out) => out = Resolve(Undefined)

\* C2, for keys that are a single field or pairwise different field names.
C2_DistinctKeys ==
  \A c \in Callers :
    (/\ Answered(c, "validateDuplicate")
     /\ Cardinality(Range(KeysOf(call[c].args))) = Len(KeysOf(call[c].args))) =>
      LET out == call[c].outcome IN
      /\ IsConflict(out) <=> HoldsMatch(call[c].seen, call[c].args)
      /\ IsConflict(out) => Enumerates(out.error.message, call[c].args)
      /\ ~IsConflict(out) => out = Resolve(Undefined)

\* C5: a getById answered while the last write under its id is a create is
\* resolved with a record that has every attribute of the creation input with
\* the input's value, and otherwise only schema defaults.
C5_CreateGetByIdRoundTrip ==
  \A c \in Callers :
    (Answered(c, "getById") /\ call[c].seen.kind = "create") =>
      LET out == call[c].outcome
          data == call[c].seen.data
      IN /\ out.kind = "resolve"
         /\ data.id = call[c].args.id
         /\ DOMAIN data \subseteq DOMAIN out.value
         /\ \A f \in DOMAIN data : out.value[f] = data[f]
         /\ \A f \in DOMAIN out.value \ DOMAIN data :
              f \in DefaultFields /\ out.value[f] = DefaultOf(f)

\* Such a getById, issued after the create, resolved, once for an input that gives isDeleted and once
\* for an input that leaves it to the default.
C5_Witness ==
  /\ \E c \in Callers :
       /\ Answered(c, "getById") /\ call[c].seen.kind = "create"
       /\ call[c].atIssue = call[c].seen
       /\ "isDeleted" \in DOMAIN call[c].seen.data
       /\ call[c].outcome.kind = "resolve"
  /\ \E c \in Callers :
       /\ Answered(c, "getById") /\ call[c].seen.kind = "create"
       /\ call[c].atIssue = call[c].seen
       /\ "isDeleted" \notin DOMAIN call[c].seen.data
       /\ call[c].outcome.kind = "resolve"
       /\ call[c].outcome.value.isDeleted = "false"

C7_NoCreateSinceDelete ==
  \A c \in Callers :
    (/\ Answered(c, "getById")
     /\ \/ call[c].atIssue.kind = "delete"
        \/ call[c].atIssue.kind = "update" /\ call[c].atIssue.afterDelete
     /\ call[c].seen = call[c].atIssue) =>
      call[c].outcome = Reject(NotFoundError(call[c].table, call[c].args.id))

\* C7 as amended: a getById answered while the last write under its id is a
\* delete (no create and no update under that id since) is rejected with
\* NotFoundError.
C7_DeleteGetByIdNotFound ==
  \A c \in Callers :
    (Answered(c, "getById") /\ call[c].seen.kind = "delete") =>
      call[c].outcome = Reject(NotFoundError(call[c].table, call[c].args.id))

\* Such a getById, issued after the delete, was rejected.
C7_Witness ==
  \E c \in Callers :
    /\ Answered(c, "getById") /\ call[c].seen.kind = "delete"
    /\ call[c].atIssue = call[c].seen
    /\ call[c].outcome.kind = "reject"

Operations == {"search", "getById", "validateDuplicate", "create", "update", "delete"}

\* C8: no call makes more than one backend request, and a call whose request
\* the backend failed is rejected with the very error the backend gave.
C8_BackendErrorPropagates ==
  \A c \in Callers :
    /\ call[c].calls <= 1
    /\ (call[c].status = "settled" /\ call[c].resp.type = "error") =>
         /\ call[c].op \in Operations
         /\ call[c].resp.err \in BackendErrors
         /\ call[c].calls = 1
         /\ call[c].outcome = Reject(call[c].resp.err)

\* A delete and a validateDuplicate were each failed by the backend.
C8_Witness ==
  /\ \E c \in Callers : Settled(c, "delete") /\ call[c].resp.type = "error"
  /\ \E c \in Callers :
       Settled(c, "validateDuplicate") /\ call[c].resp.type = "error"

\* C9: from the return of the constructor on, the table-model mapping never
\* changes.
C9_MappingFixed == [][models' = models]_vars

\* C10: the entry of a configured table is missing exactly while its
\* population task is suspended, calls are not held back until then, and a
\* call that found the entry missing was rejected with a TypeError and made
\* no backend request.
C10_UnpopulatedRead ==
  /\ \A t \in Tables : t \in DOMAIN models <=> t \notin Range(populating)
  /\ \A c \in Callers :
       call[c].read = "undefined" =>
         /\ call[c].table \in Tables
         /\ call[c].status = "settled"
         /\ call[c].outcome = Reject(TypeError)
         /\ call[c].calls = 0
  /\ \A c \in Callers :
       call[c].op \in {"search", "getById", "create", "validateDuplicate"} =>
         call[c].read \in {"undefined", "model"} \/ Mismatched(call[c].args)

\* search, getById and create have each been issued on a configured table
\* before its entry was written.
C10_Witness ==
  /\ populating # <<>>
  /\ \E c \in Callers :
       /\ call[c].op \in {"search", "getById"}
       /\ call[c].table \in Tables /\ call[c].table \notin DOMAIN models
       /\ call[c].read = "undefined"
  /\ \E c \in Callers :
       /\ call[c].op = "create"
       /\ call[c].table \in Tables /\ call[c].table \notin DOMAIN models
       /\ call[c].read = "undefined"

\* ---------------------------------------------------------------------- C11

\* What a caller can observe of a call: the operation's arguments, the
\* backend calls made, the backend's answer and the result or error.
Observed(rec) ==
  [table |-> rec.table, args |-> rec.args, status |-> rec.status,
   calls |-> rec.calls, resp |-> rec.resp, outcome |-> rec.outcome]

\* The two services are in the same state as far as the driver and the
\* backend can tell.
SameBehaviour ==
  /\ Observed(call[Driver]) = Observed(factory.call)
  /\ db = factory.db
  /\ handle[Driver] = factory.handle
  /\ models = factory.models

\* C11: run side by side on the same configuration, backend state, sequence
\* of calls and backend answers, the class and the factory-built service make
\* the same backend calls and settle every call with the same result or error.
C11_SameBehaviour == SameBehaviour

\* The two services agree on every run in which the driver has not called
\* delete on the factory-built service: on search, getById, validateDuplicate,
\* create and update, and on delete paired with the factory's remove.
C11_SameUnlessDelete == ~factory.missing => SameBehaviour

\* Both services have deleted a record they were asked to delete, the class
\* through delete and the factory-built service through remove.
C11_RemoveAgrees ==
  /\ Settled(Driver, "delete") /\ call[Driver].outcome.kind = "resolve"
  /\ factory.call.op = "remove" /\ factory.call.outcome.kind = "resolve"
  /\ ~factory.missing

\* ---------------------------------------------------------------------- C12

\* The step settles c's pending update on a backend error.
UpdateFails(c) ==
  /\ call[c].op = "update" /\ call[c].status = "pending"
  /\ call'[c].status = "settled"
  /\ call'[c].resp.type = "error"

\* C12: the step that issues update(record, data) writes data's values into
\* the caller's record handle while the save is still to be answered and the
\* table is as it was; when the save fails, update rejects with the backend's
\* error, the table is unchanged, and the handle keeps the values of data.
C12_FailedUpdateKeepsOverwrite ==
  [][\A c \in Callers :
       /\ Issues(c, "update") =>
            /\ call'[c].status = "pending" /\ call'[c].args.before = handle[c].item
            /\ \A f \in DOMAIN call'[c].args.data :
                 handle'[c].item[f] = call'[c].args.data[f]
            /\ db' = db
       /\ UpdateFails(c) =>
            /\ call'[c].resp.err \in BackendErrors
            /\ call'[c].outcome = Reject(call'[c].resp.err)
            /\ db' = db
            /\ \A f \in DOMAIN call[c].args.data :
                 handle'[c].item[f] = call[c].args.data[f]]_vars

\* An update failed: the table still holds the record as the handle had it
\* before the call, and the handle differs from it in an updated field.
C12_Witness ==
  \E c \in Callers :
    /\ Settled(c, "update") /\ call[c].resp.type = "error"
    /\ call[c].outcome.kind = "reject"
    /\ LET t == call[c].table
           before == call[c].args.before
       IN /\ before.id \in DOMAIN db[t] /\ db[t][before.id] = before
          /\ handle[c].table = t
          /\ \E f \in DOMAIN call[c].args.data :
               /\ handle[c].item[f] = call[c].args.data[f]
               /\ handle[c].item[f] # before[f]

\* ---------------------------------------------------------------------- C13

\* Caller c's history is a validateDuplicate of values that resolved, and then,
\* when n is 2, a create of a record with those values that resolved.
RanFine(hist, c, values, n) ==
  /\ Len(hist) = n
  /\ hist[1].op = "validateDuplicate" /\ hist[1].kind = "resolve"
  /\ hist[1].args.keys = RaceKeys /\ hist[1].args.values = values
  /\ n = 2 =>
       /\ hist[2].op = "create" /\ hist[2].kind = "resolve"
       /\ hist[2].args.data = RaceData(c, values)

\* C13: no step of validateDuplicate writes to a table, and a create whose
\* save the backend answered without error resolves and stores its record
\* whatever the table holds, so a caller whose validateDuplicate resolved is
\* never refused by its create because another caller created the same values
\* in between.
C13_ValidateThenCreateNotAtomic ==
  [][\A c \in Callers :
       /\ (call'[c] # call[c] /\ call'[c].op = "validateDuplicate") => db' = db
       /\ (/\ call[c].op = "create" /\ call[c].status = "pending"
           /\ call'[c].status = "settled" /\ call'[c].resp.type = "write") =>
            /\ call'[c].outcome = Resolve(call[c].args.item)
            /\ db'[RaceTable] =
                 SetProp(db[RaceTable], call[c].args.item.id, call[c].args.item)
            /\ \E values \in RaceValues :
                 RanFine(log[c], c, values, 1) /\ RanFine(log'[c], c, values, 2)]_vars

\* Both callers validated the same values and created them, every call
\* resolving: neither received Conflict, and the table holds two records with
\* those values.
C13_Witness ==
  \E values \in RaceValues :
    /\ \A c \in Callers : RanFine(log[c], c, values, 2)
    /\ DOMAIN db[RaceTable] = {RaceData(c, values).id : c \in Callers}
    /\ \A c \in Callers :
         /\ db[RaceTable][RaceData(c, values).id].name = values.elems[1]
         /\ db[RaceTable][RaceData(c, values).id].countryCode = values.elems[2]

\* Run one after the other, the second caller is refused: a validateDuplicate
\* answered when the table holds a record with its values is rejected with
\* ConflictError, and the caller creates nothing.
C13_Sequential ==
  \A c \in Callers :
    (Answered(c, "validateDuplicate") /\ HoldsMatch(call[c].seen, call[c].args))
      => /\ IsConflict(call[c].outcome)
         /\ Len(log[c]) = 1 /\ log[c][1].error = "ConflictError"

\* A caller was refused so.
C13_Refused ==
  \E c \in Callers :
    /\ Answered(c, "validateDuplicate") /\ HoldsMatch(call[c].seen, call[c].args)
    /\ IsConflict(call[c].outcome)

====
